---------------------------- MODULE Spec2Model ----------------------------
(***************************************************************************)
(* A model of the orbit-crab canvas front end: the OrbitCanvas component   *)
(* (camera, input handlers, animation loop, asynchronous WASM start-up,    *)
(* parameter-change rebuild), the orbital path builder and the canvas      *)
(* drawing helpers.                                                        *)
(*                                                                         *)
(* Numbers.  JavaScript numbers are IEEE-754 doubles.  Two representations *)
(* are used:                                                               *)
(*  - the loop variable `deg` of rebuildOrbitPath decides how often the    *)
(*    loop runs, so it is modelled bit-exactly: a double in [0, 1024) that *)
(*    is a multiple of 2^-48 is a triple <<h, m, l>> of 24-bit limbs       *)
(*    standing for h + m/2^24 + l/2^48, and every addition and division    *)
(*    rounds to 53 significant bits, ties to even;                         *)
(*  - coordinates and angles are fixed point: angles in 1e-4 rad, sines    *)
(*    and cosines in 1e-4, lengths in km (world) and pixels (screen).      *)
(*  - the eccentricity is an integer count of 1/EDen, EDen = 100 * a for   *)
(*    the only semi-major axis the program uses, so that 1 - R/a - 0.01    *)
(*    is exact.                                                            *)
(***************************************************************************)
EXTENDS Integers, Sequences, FiniteSets, TLC

\* null: a record, so that it compares with the records that replace it.
Null == [null |-> TRUE]

Max(x, y) == IF x >= y THEN x ELSE y
Min(x, y) == IF x <= y THEN x ELSE y
Abs(x) == IF x >= 0 THEN x ELSE -x

\* Math.round on a ratio n/d (d > 0): the nearest integer, halves upwards.
RoundDiv(n, d) == (2 * n + d) \div (2 * d)

\* floor(x * y / z) without forming x * y (z > 0, x >= 0, y >= 0).
MulDiv(x, y, z) == x * (y \div z) + (x * (y % z)) \div z

(***************************************************************************)
(* IEEE-754 double arithmetic on <<h, m, l>> limb triples.                 *)
(***************************************************************************)
LimbBase == 2 ^ 24

RECURSIVE BitLen(_)
BitLen(n) == IF n = 0 THEN 0 ELSE 1 + BitLen(n \div 2)

\* Bits of the low limb that lie below the unit in the last place of a
\* double whose integer part is h (ulp = 2^(BitLen(h) - 53), limb unit 2^-48).
DropBits(h) == Max(0, BitLen(h) - 5)

DZero == <<0, 0, 0>>

\* Carry normalisation of a triple whose limbs may exceed the base.
DNorm(h, m, l) ==
    LET m1 == m + l \div LimbBase
    IN  <<h + m1 \div LimbBase, m1 % LimbBase, l % LimbBase>>

\* Round an exact value (triple plus a sticky flag for what lies below
\* 2^-48) to the nearest double, ties to even.
DRound(d, sticky) ==
    LET k    == DropBits(d[1])
        q    == 2 ^ k
        rem  == d[3] % q
        base == d[3] - rem
        odd  == (base \div q) % 2 = 1
        up   == IF k = 0
                THEN FALSE
                ELSE \/ 2 * rem > q
                     \/ 2 * rem = q /\ sticky
                     \/ 2 * rem = q /\ ~sticky /\ odd
    IN  DNorm(d[1], d[2], IF up THEN base + q ELSE base)

\* x + y for doubles.
DAdd(x, y) == DRound(DNorm(x[1] + y[1], x[2] + y[2], x[3] + y[3]), FALSE)

\* n / s for small positive integers (n < 1024, 1 <= s < 128), correctly
\* rounded.  Quotients below 16 have a finer ulp than 2^-48 and are
\* supported only when exact at that resolution (e.g. 360 / 360).
DDivInt(n, s) ==
    LET h  == n \div s
        r1 == n % s
        m  == (r1 * LimbBase) \div s
        r2 == (r1 * LimbBase) % s
        l  == (r2 * LimbBase) \div s
        r3 == (r2 * LimbBase) % s
        k  == DropBits(h)
    IN  IF k > 0
        THEN DRound(<<h, m, l>>, r3 # 0)
        ELSE IF 2 * r3 > s \/ (2 * r3 = s /\ l % 2 = 1)
             THEN DNorm(h, m, l + 1)
             ELSE <<h, m, l>>

\* d < n for a double d and an integer n.
DLessInt(d, n) == d[1] < n

\* A double of degrees as thousandths of a degree (truncated).
DMilli(d) == d[1] * 1000 + ((d[2] \div (2 ^ 10)) * 1000) \div (2 ^ 14)


(***************************************************************************)
(* Fixed-point trigonometry: angles in 1e-4 rad, values in 1e-4.           *)
(***************************************************************************)
Unit == 10 ^ 4

\* Math.PI in 1e-4 rad.
Pi4 == 31416
HalfPi4 == Pi4 \div 2
TwoPi4 == 2 * Pi4

\* sin on [0, pi/4]: the Taylor polynomial to x^9 in Horner form.
SinQ(x) ==
    LET x2 == RoundDiv(x * x, Unit)
        s1 == Unit - RoundDiv(x2, 72)
        s2 == Unit - RoundDiv(x2 * s1, 42 * Unit)
        s3 == Unit - RoundDiv(x2 * s2, 20 * Unit)
        s4 == Unit - RoundDiv(x2 * s3, 6 * Unit)
    IN  RoundDiv(x * s4, Unit)

\* cos on [0, pi/4]: the Taylor polynomial to x^8 in Horner form.
CosQ(x) ==
    LET x2 == RoundDiv(x * x, Unit)
        c1 == Unit - RoundDiv(x2, 56)
        c2 == Unit - RoundDiv(x2 * c1, 30 * Unit)
        c3 == Unit - RoundDiv(x2 * c2, 12 * Unit)
    IN  Unit - RoundDiv(x2 * c3, 2 * Unit)

\* sin on [0, pi/2]
SinH(x) == IF 2 * x <= HalfPi4 THEN SinQ(x) ELSE CosQ(HalfPi4 - x)

\* Math.sin
Sin4(x) ==
    LET y == x % TwoPi4
    IN  IF y <= HalfPi4 THEN SinH(y)
        ELSE IF y <= Pi4 THEN SinH(Pi4 - y)
        ELSE IF y <= Pi4 + HalfPi4 THEN -SinH(y - Pi4)
        ELSE -SinH(TwoPi4 - y)

\* Math.cos
Cos4(x) == Sin4(x + HalfPi4)

\* The product of a length or a 1e-4 value n with a 1e-4 value v.
Mul4(n, v) == RoundDiv(n * v, Unit)

\* deg * Math.PI / 180 for tenths of a degree.
TenthsToRad4(t) == (t * Pi4) \div 1800

\* deg * Math.PI / 180 for a double of degrees (deg >= 0).
DegToRad4(d) ==
    LET md == DMilli(d)
    IN  ((md \div 1000) * Pi4) \div 180 + ((md % 1000) * Pi4) \div 180000


(***************************************************************************)
(* canvas/math.ts                                                          *)
(***************************************************************************)
\* A shear in place of the rotation about X (the sign of z * sin is lost),
\* for comparison.
ShearedX(point, cos, sin) ==
    [x |-> point.x,
     y |-> RoundDiv(point.y * cos + point.z * sin, Unit),
     z |-> RoundDiv(point.y * sin + point.z * cos, Unit)]

\* return [x, y * cos - z * sin, y * sin + z * cos]
RotatedX(point, cos, sin) ==
    [x |-> point.x,
     y |-> RoundDiv(point.y * cos - point.z * sin, Unit),
     z |-> RoundDiv(point.y * sin + point.z * cos, Unit)]

rotateX(point, angle) == RotatedX(point, Cos4(angle), Sin4(angle))

\* return [x * cos + z * sin, y, -x * sin + z * cos]
RotatedY(point, cos, sin) ==
    [x |-> RoundDiv(point.x * cos + point.z * sin, Unit),
     y |-> point.y,
     z |-> RoundDiv((-point.x) * sin + point.z * cos, Unit)]

rotateY(point, angle) == RotatedY(point, Cos4(angle), Sin4(angle))

\* toCameraSpaceFactory(getRotationX, getRotationY)(point): X first, then Y.
toCameraSpace(cam, point) ==
    rotateY(rotateX(point, cam.rotationX), cam.rotationY)

fov == 1000

\* The screen coordinates x * fov / (fov + z) + innerWidth / 2 of a point c
\* in camera space, z += getZ(); they are kept as exact fractions over the
\* common denominator 2 * (fov + z), which the code does not guard.
Projected(c, camZ, win) ==
    [nx  |-> 2 * c.x * fov + win.innerWidth * (fov + c.z + camZ),
     ny  |-> 2 * c.y * fov + win.innerHeight * (fov + c.z + camZ),
     den |-> 2 * (fov + c.z + camZ)]

\* project3DFactory(toCameraSpace, getZ)(point)
project3D(cam, win, point) == Projected(toCameraSpace(cam, point), cam.z, win)

NaN == "NaN"

\* Math.round of a fraction; a zero denominator gives a non-finite value.
MathRound(n, d) ==
    IF d > 0 THEN RoundDiv(n, d)
    ELSE IF d < 0 THEN RoundDiv(-n, -d)
    ELSE NaN

(***************************************************************************)
(* canvas/orbit.ts                                                         *)
(***************************************************************************)
EARTH_RADIUS == 6371

\* const semiMajorAxis = EARTH_RADIUS + 4000
InitSemiMajorAxis == EARTH_RADIUS + 4000

\* Resolution of the eccentricity: e stands for e / EDen.
EDen == 100 * InitSemiMajorAxis

\* An eccentricity in 1e-4.
E4(e) == RoundDiv(e * 100, EDen \div 100)

\* SCALE = 0.1 pixels per km
\* World coordinates used as they are, for comparison.
NoScale == [num |-> 1, den |-> 1]

SCALE == [num |-> 1, den |-> 10]

Times(v, q) == RoundDiv(v * q.num, q.den)

\* The body of the loop of rebuildOrbitPath: the point at true anomaly deg.
OrbitPoint(params, deg) ==
    LET nu    == DegToRad4(deg)
        e     == E4(params.e)
        cosnu == Cos4(nu)
        sinnu == Sin4(nu)
        r     == RoundDiv(params.a * (Unit - Mul4(e, e)), Unit + Mul4(e, cosnu))
        x_orb == Mul4(r, cosnu)
        y_orb == Mul4(r, sinnu)
        cosO  == Cos4(params.raan)
        sinO  == Sin4(params.raan)
        cosi  == Cos4(params.i)
        sini  == Sin4(params.i)
        cosw  == Cos4(params.w)
        sinw  == Sin4(params.w)
    IN  [x |-> RoundDiv((Mul4(cosO, cosw) - Mul4(Mul4(sinO, sinw), cosi)) * x_orb
                        + (-Mul4(cosO, sinw) - Mul4(Mul4(sinO, cosw), cosi)) * y_orb,
                        Unit),
         y |-> RoundDiv((Mul4(sinO, cosw) + Mul4(Mul4(cosO, sinw), cosi)) * x_orb
                        + (-Mul4(sinO, sinw) + Mul4(Mul4(cosO, cosw), cosi)) * y_orb,
                        Unit),
         z |-> RoundDiv(Mul4(sinw, sini) * x_orb + Mul4(cosw, sini) * y_orb, Unit)]

\* for (let deg = 0; deg < 360; deg += 360 / steps) { ... points.push(...) }
\* The loop state is [deg, points, degs]; degs records the value of deg at
\* which each point was pushed.
OrbitLoopTest(st) == DLessInt(st.deg, 360)

OrbitLoopBody(params, inc, st) ==
    [deg    |-> DAdd(st.deg, inc),
     points |-> Append(st.points, OrbitPoint(params, st.deg)),
     degs   |-> Append(st.degs, st.deg)]

\* The loop is unrolled in nested blocks of LoopBlock iterations to keep the
\* evaluation depth small: up to LoopBlock^3 iterations, which is more than
\* any sample count used here needs.
LoopBlock == 2 ^ 4

RECURSIVE OrbitLoop(_, _, _, _, _)
OrbitLoop(params, inc, st, level, n) ==
    IF n = 0 \/ ~OrbitLoopTest(st) THEN st
    ELSE OrbitLoop(params, inc,
                   IF level = 0
                   THEN OrbitLoopBody(params, inc, st)
                   ELSE OrbitLoop(params, inc, st, level - 1, LoopBlock),
                   level, n - 1)

\* rebuildOrbitPath(params, steps) with the sample angles it used.
rebuildOrbitTrace(params, steps) ==
    OrbitLoop(params, DDivInt(360, steps),
              [deg |-> DZero, points |-> <<>>, degs |-> <<>>], 2, LoopBlock)

rebuildOrbitPath(params, steps) == rebuildOrbitTrace(params, steps).points

DefaultSteps == 360

\* The iteration i of the loop of drawOrbitPath: started is false in the
\* first iteration only.
Scaled(p, q) == [x |-> Times(p.x, q), y |-> Times(p.y, q), z |-> Times(p.z, q)]

\* [Math.round(sx), Math.round(sy)]
Rounded(s) == <<MathRound(s.nx, s.den), MathRound(s.ny, s.den)>>

PathCall(name, xy) == <<name, xy[1], xy[2]>>

DrawOrbitStep(cam, win, path, i) ==
    PathCall(IF i = 1 THEN "moveTo" ELSE "lineTo",
             Rounded(project3D(cam, win, Scaled(path[i], SCALE))))

\* The calls of drawOrbitPath around and after its loop; first is the
\* rounded screen position of point 0.
ClosedPath(body) ==
    << <<"save">>, <<"setLineDash">>, <<"beginPath">> >>
    \o body
    \o << <<"lineTo", body[1][2], body[1][3]>>, <<"stroke">>, <<"restore">> >>

\* A drawOrbitPath that strokes the polyline without closing it, for
\* comparison.
drawOrbitPathOpen(cam, win, path) ==
    IF Len(path) = 0 THEN <<>>
    ELSE << <<"save">>, <<"setLineDash">>, <<"beginPath">> >>
         \o [i \in 1..Len(path) |-> DrawOrbitStep(cam, win, path, i)]
         \o << <<"stroke">>, <<"restore">> >>

\* drawOrbitPath(ctx, project3D, SCALE, path): the calls made on ctx.
drawOrbitPath(cam, win, path) ==
    IF Len(path) = 0 THEN <<>>
    ELSE ClosedPath([i \in 1..Len(path) |-> DrawOrbitStep(cam, win, path, i)])


(***************************************************************************)
(* canvas/stars.ts                                                         *)
(***************************************************************************)
\* A star set is known by its size and the viewport its random coordinates
\* were drawn for; the empty array is NoStars.
NoStars == [n |-> 0, width |-> 0, height |-> 0]

ensureStars(stars, width, height, count) ==
    IF stars.n > 0 THEN stars
    ELSE [n |-> count, width |-> width, height |-> height]

StarCount == 200

(***************************************************************************)
(* The propagator (the WASM Satellite class): its constructor arguments    *)
(* and the simulated time it has been advanced by.                         *)
(***************************************************************************)
\* new wasm.Satellite(a, e, inclinationDeg, 0, 0, 0, 1000, 300, 1000);
\* inclination in tenths of a degree.
\* born is Date.now() at the construction.
NewSatellite(a, e, incl, born) ==
    [semiMajorAxis |-> a, eccentricity |-> e, inclination |-> incl, t |-> 0,
     born |-> born]

\* satellite.update(deltaTime): deltaTime in simulated milliseconds.
SatUpdate(sat, deltaTime) == [sat EXCEPT !.t = @ + deltaTime]

\* { x: get_x(), y: get_y(), z: get_z() }: the position is a function of the
\* elements and of the simulated time, and is kept as that pair.
SatPosition(sat) ==
    [semiMajorAxis |-> sat.semiMajorAxis, eccentricity |-> sat.eccentricity,
     inclination |-> sat.inclination, t |-> sat.t]

\* The constructor arguments of a propagator instance (Null for none).
SatElements(sat) ==
    IF sat = Null THEN Null
    ELSE [semiMajorAxis |-> sat.semiMajorAxis, eccentricity |-> sat.eccentricity,
          inclination |-> sat.inclination]

(***************************************************************************)
(* OrbitCanvas: bounds and input sets                                      *)
(***************************************************************************)
\* Date.now() runs from 0 to MaxNow (milliseconds).
MaxNow == 1

\* rotationY is not clamped by the code; drags are offered while it stays
\* within MaxYaw radians of zero.
MaxYaw == 2

\* Pointer positions (clientX, clientY) and wheel deltaY of the events the
\* whole component is explored with: the pointer is pressed and released in
\* one place and the wheel turns one way.
ClientPoints == {<<300, 200>>}

WheelDeltas == {300}

\* Pointer positions and wheel deltaY the camera handlers are explored with
\* on their own: drags of 1 px = 0.01 rad in both axes, both wheel directions.
DragPoints == {<<0, 0>>, <<100, 0>>, <<0, 200>>, <<100, 200>>}

ZoomDeltas == {-100, 100}

\* window.innerWidth, window.innerHeight: at mount, and the sizes the window
\* is resized between.
InitWindow == [innerWidth |-> 800, innerHeight |-> 600]

WindowSizes == {InitWindow, [innerWidth |-> 1024, innerHeight |-> 768]}

\* window.devicePixelRatio || 1
DevicePixelRatio == 1

\* Inclination slider positions, tenths of a degree (min 0, max 180, step 0.1).
InclinationChoices == {516, 900}

\* Eccentricity slider positions, hundredths (min 0, step 0.01); the slider's
\* max attribute is getSafeMaxE().
EccentricityChoices == {0, 37, 38}

\* requestAnimationFrame handles: fresh handles are drawn from this set.
Handles == 1..3

\* rebuildOrbitPath is applied to the sample counts 1..MaxSteps and to the
\* default count.
MaxSteps == 19

\* drawOrbitPath is applied to the paths of up to MaxPathLen points.
MaxPathLen == 3

\* The length of the array the loop of rebuildOrbitPath fills is counted up
\* to MaxCount; its parity is kept exactly.
MaxCount == 24

VARIABLES
    canvasRef,        \* canvasRef.current: the canvas element, Null when detached
    listening,        \* the resize listener of the mount effect is registered
    animationRef,     \* animationRef.current: last handle (0 for undefined)
    rafQueue,         \* handles of the scheduled, not yet run animation frames
    mouseRef,         \* mouseRef.current
    wasmRef,          \* wasmRef.current: Null or the loaded module
    initPc,           \* where initializeWasm stands
    satelliteRef,     \* satelliteRef.current
    lastTimeRef,      \* lastTimeRef.current
    starsRef,         \* starsRef.current
    trailRef,         \* trailRef.current
    orbitPathRef,     \* orbitPathRef.current
    orbitParamsRef,   \* orbitParamsRef.current
    semiMajorAxisRef, \* semiMajorAxisRef.current
    inclinationDeg,   \* React state, tenths of a degree
    eccentricity,     \* React state, in 1/EDen
    camera,           \* React state
    cameraRef,        \* cameraRef.current
    window,           \* window.innerWidth, window.innerHeight
    canvas,           \* canvas.width, canvas.height
    now,              \* Date.now()
    frameLog,         \* the calls animate made in the step just taken, in order
    probe             \* a pure function under test: its input and its result

vars == <<canvasRef, listening, animationRef, rafQueue, mouseRef, wasmRef, initPc,
          satelliteRef, lastTimeRef, starsRef, trailRef, orbitPathRef,
          orbitParamsRef, semiMajorAxisRef, inclinationDeg, eccentricity, camera,
          cameraRef, window, canvas, now, frameLog, probe>>

\* Everything but the pure-function probe.
progVars == <<canvasRef, listening, animationRef, rafQueue, mouseRef, wasmRef,
              initPc, satelliteRef, lastTimeRef, starsRef, trailRef, orbitPathRef,
              orbitParamsRef, semiMajorAxisRef, inclinationDeg, eccentricity,
              camera, cameraRef, window, canvas, now, frameLog>>


(***************************************************************************)
(* OrbitCanvas: helpers                                                    *)
(***************************************************************************)
\* semiMajorAxisRef.current || (EARTH_RADIUS + 4000)
ActiveSemiMajorAxis ==
    IF semiMajorAxisRef # 0 THEN semiMajorAxisRef ELSE EARTH_RADIUS + 4000

\* EARTH_RADIUS / a, in 1/EDen.
RadiusOverA(a) == MulDiv(100 * EARTH_RADIUS, InitSemiMajorAxis, a)

\* The slider maximum without the 0.01 margin, for comparison.
getRawMaxE ==
    Max(0, Min(95 * (EDen \div 100), EDen - RadiusOverA(ActiveSemiMajorAxis)))

\* getSafeMaxE(): Math.max(0, Math.min(0.95, rawMax - 0.01))
getSafeMaxE ==
    LET a      == ActiveSemiMajorAxis
        rawMax == EDen - RadiusOverA(a)
    IN  Max(0, Min(95 * (EDen \div 100), rawMax - EDen \div 100))

\* A slider position in hundredths as an eccentricity in 1/EDen.
Hundredths(v) == v * (EDen \div 100)

\* A pitch update without the clamp, for comparison.
UnclampedRotationX(rotationX, deltaY) == rotationX + deltaY * 100

\* Math.max(-Math.PI/2, Math.min(Math.PI/2, prev.rotationX + deltaY * 0.01))
DragRotationX(rotationX, deltaY) ==
    Max(-HalfPi4, Min(HalfPi4, rotationX + deltaY * 100))

\* prev.rotationY + deltaX * 0.01
DragRotationY(rotationY, deltaX) == rotationY + deltaX * 100

\* Math.max(2000, Math.min(5000, prev.z - e.deltaY * 10))
WheelZ(z, deltaY) == Max(2000, Min(5000, z - deltaY * 10))

\* The calls of a tick that draws the body before the path, for comparison.
FrameCallsBodyFirst(sat, sat1, deltaTime, path) ==
    (IF sat # Null THEN << <<"update", deltaTime * 50>> >> ELSE <<>>)
    \o << <<"fillRect">>,
          <<"drawStars">>,
          <<"drawWireframeEarth">>,
          <<"drawOrbitPath", Len(path)>>,
          <<"drawSatellite">>,
          <<"getWorldPosition", IF sat1 = Null THEN Null ELSE SatPosition(sat1).t>> >>
    \o (IF sat1 # Null THEN << <<"marker">> >> ELSE <<>>)

\* The calls of a tick that draws the marker whether or not there is a
\* position, for comparison.
FrameCallsAlwaysMarker(sat, sat1, deltaTime, path) ==
    (IF sat # Null THEN << <<"update", deltaTime * 50>> >> ELSE <<>>)
    \o << <<"fillRect">>,
          <<"drawStars">>,
          <<"drawOrbitPath", Len(path)>>,
          <<"drawWireframeEarth">>,
          <<"drawSatellite">>,
          <<"getWorldPosition", IF sat1 = Null THEN Null ELSE SatPosition(sat1).t>>,
          <<"marker">> >>

\* The calls of one run of animate past its early returns, in program order:
\* the propagator's update with its argument, the clear, the four draw
\* helpers with the length of the path handed to drawOrbitPath, and inside
\* drawSatellite the position read (the simulated time it is the position
\* of, Null for none) and, when there is one, the marker.
\* sat is satelliteRef.current before the run and sat1 after the update.
FrameCalls(sat, sat1, deltaTime, path) ==
    (IF sat # Null THEN << <<"update", deltaTime * 50>> >> ELSE <<>>)
    \o << <<"fillRect">>,
          <<"drawStars">>,
          <<"drawOrbitPath", Len(path)>>,
          <<"drawWireframeEarth">>,
          <<"drawSatellite">>,
          <<"getWorldPosition", IF sat1 = Null THEN Null ELSE SatPosition(sat1).t>> >>
    \o (IF sat1 # Null THEN << <<"marker">> >> ELSE <<>>)

\* canvas.width = window.innerWidth * dpr; canvas.height = ...
CanvasFor(win) ==
    [width  |-> win.innerWidth * DevicePixelRatio,
     height |-> win.innerHeight * DevicePixelRatio]

\* A browser that drops the request, for comparison.
requestNoFrame(queue, id) == queue

\* requestAnimationFrame(animate): the callback is queued under handle id.
requestAnimationFrame(queue, id) == queue \cup {id}

\* requestAnimationFrame returns a handle no scheduled frame holds.
FreshHandle == CHOOSE id \in Handles : id \notin rafQueue /\ id # animationRef

\* The elements rebuild stores for the current slider values.
RebuildParams(ecc, incl) ==
    [a    |-> ActiveSemiMajorAxis,
     e    |-> Max(0, Min(ecc, getSafeMaxE)),
     i    |-> TenthsToRad4(incl),
     raan |-> 0,
     w    |-> 0]

\* A propagator built with the clamp missing its 0.01 margin, for comparison.
RebuildSatelliteRawClamp(ecc, incl) ==
    LET a     == ActiveSemiMajorAxis
        eSafe == Min(ecc, EDen - RadiusOverA(a))
    IN  NewSatellite(a, Max(0, eSafe), incl, now)

\* The propagator rebuild constructs for the current slider values.
RebuildSatellite(ecc, incl) ==
    LET a     == ActiveSemiMajorAxis
        eSafe == Min(ecc, EDen - RadiusOverA(a) - EDen \div 100)
    IN  NewSatellite(a, Max(0, eSafe), incl, now)

\* The elements the controller can hand to the path builder, and the paths
\* built from them with the default sample count, computed once.
KnownParams ==
    [a    : {EARTH_RADIUS + 4000},
     e    : {Hundredths(v) : v \in EccentricityChoices},
     i    : {TenthsToRad4(v) : v \in InclinationChoices \cup {516}},
     raan : {0},
     w    : {0}]

KnownPaths == {<<p, rebuildOrbitPath(p, DefaultSteps)>> : p \in KnownParams}

\* rebuildOrbitExternal(orbitParamsRef.current): the default sample count.
rebuildOrbitExternal(params) ==
    IF params \in KnownParams
    THEN (CHOOSE known \in KnownPaths : known[1] = params)[2]
    ELSE rebuildOrbitPath(params, DefaultSteps)

\* The WASM module is usable once `await wasm.default()` has resolved.
WasmReady == initPc = "done"


(***************************************************************************)
(* OrbitCanvas: the state after the first render and its mount effects     *)
(* (the camera effect, initializeWasm() up to its first await, the first   *)
(* animate(), the resize listener, and the parameter effect, whose         *)
(* rebuild returns at once because wasmRef.current is still null).         *)
(***************************************************************************)
InitCamera ==
    [x |-> 0, y |-> 0, z |-> 3000, rotationX |-> Pi4 \div 4, rotationY |-> HalfPi4]

InitProgram ==
    /\ window = InitWindow
    /\ canvasRef = [element |-> "canvas"]
    /\ listening = TRUE
    /\ mouseRef = [isDown |-> FALSE, lastX |-> 0, lastY |-> 0]
    /\ wasmRef = Null
    /\ initPc = "loadWasm"
    /\ satelliteRef = Null
    /\ now = 0
    /\ lastTimeRef = 0
    /\ trailRef = <<>>
    /\ orbitPathRef = <<>>
    /\ orbitParamsRef = Null
    /\ semiMajorAxisRef = 0
    /\ inclinationDeg = 516
    /\ eccentricity = 0
    /\ camera = InitCamera
    /\ cameraRef = InitCamera
    /\ canvas = CanvasFor(window)
    /\ starsRef = ensureStars(NoStars, window.innerWidth, window.innerHeight, StarCount)
    /\ frameLog = FrameCalls(Null, Null, 0, <<>>)
    /\ animationRef = 1
    /\ rafQueue = {1}

Init == InitProgram /\ probe = Null

(***************************************************************************)
(* Mouse and wheel handlers                                                *)
(***************************************************************************)
handleMouseDown(clientX, clientY) ==
    /\ canvasRef # Null
    /\ mouseRef' = [isDown |-> TRUE, lastX |-> clientX, lastY |-> clientY]
    /\ frameLog' = <<>>
    /\ UNCHANGED <<canvasRef, listening, animationRef, rafQueue, wasmRef, initPc,
                   satelliteRef, lastTimeRef, starsRef, trailRef, orbitPathRef,
                   orbitParamsRef, semiMajorAxisRef, inclinationDeg, eccentricity,
                   camera, cameraRef, window, canvas, now, probe>>

\* onMouseUp and onMouseLeave
handleMouseUp ==
    /\ canvasRef # Null
    /\ mouseRef' = [mouseRef EXCEPT !.isDown = FALSE]
    /\ frameLog' = <<>>
    /\ UNCHANGED <<canvasRef, listening, animationRef, rafQueue, wasmRef, initPc,
                   satelliteRef, lastTimeRef, starsRef, trailRef, orbitPathRef,
                   orbitParamsRef, semiMajorAxisRef, inclinationDeg, eccentricity,
                   camera, cameraRef, window, canvas, now, probe>>

\* The camera after setCamera(prev => ...) of handleMouseMove.
MovedCamera(prev, deltaX, deltaY) ==
    [prev EXCEPT !.rotationY = DragRotationY(prev.rotationY, deltaX),
                 !.rotationX = DragRotationX(prev.rotationX, deltaY)]

handleMouseMove(clientX, clientY) ==
    /\ canvasRef # Null
    /\ IF ~mouseRef.isDown
       THEN UNCHANGED <<camera, cameraRef, mouseRef>>
       ELSE LET deltaX == clientX - mouseRef.lastX
                deltaY == clientY - mouseRef.lastY
                next   == MovedCamera(camera, deltaX, deltaY)
            IN  /\ camera' = next
                /\ cameraRef' = next
                /\ mouseRef' = [mouseRef EXCEPT !.lastX = clientX, !.lastY = clientY]
    /\ frameLog' = <<>>
    /\ UNCHANGED <<canvasRef, listening, animationRef, rafQueue, wasmRef, initPc,
                   satelliteRef, lastTimeRef, starsRef, trailRef, orbitPathRef,
                   orbitParamsRef, semiMajorAxisRef, inclinationDeg, eccentricity,
                   window, canvas, now, probe>>

\* The camera after setCamera(prev => ...) of handleWheel.
ZoomedCamera(prev, deltaY) == [prev EXCEPT !.z = WheelZ(prev.z, deltaY)]

handleWheel(deltaY) ==
    /\ canvasRef # Null
    /\ camera' = ZoomedCamera(camera, deltaY)
    /\ cameraRef' = camera'
    /\ frameLog' = <<>>
    /\ UNCHANGED <<canvasRef, listening, animationRef, rafQueue, mouseRef, wasmRef,
                   initPc, satelliteRef, lastTimeRef, starsRef, trailRef,
                   orbitPathRef, orbitParamsRef, semiMajorAxisRef, inclinationDeg,
                   eccentricity, window, canvas, now, probe>>

(***************************************************************************)
(* The animation loop                                                      *)
(***************************************************************************)
\* The frame callback with handle h runs animate.
animate(h) ==
    /\ h \in rafQueue
    /\ IF canvasRef = Null
       THEN \* if (!canvas) return
            /\ rafQueue' = rafQueue \ {h}
            /\ frameLog' = <<>>
            /\ UNCHANGED <<animationRef, canvas, satelliteRef, lastTimeRef, starsRef>>
       ELSE LET deltaTime == now - lastTimeRef
                sat1   == IF satelliteRef # Null
                          THEN SatUpdate(satelliteRef, deltaTime * 50)
                          ELSE satelliteRef
                stars1 == ensureStars(starsRef, window.innerWidth,
                                      window.innerHeight, StarCount)
                id     == FreshHandle
            IN  /\ canvas' = CanvasFor(window)
                /\ satelliteRef' = sat1
                /\ lastTimeRef' = IF satelliteRef # Null THEN now ELSE lastTimeRef
                /\ starsRef' = stars1
                /\ frameLog' = FrameCalls(satelliteRef, sat1, deltaTime, orbitPathRef)
                /\ animationRef' = id
                /\ rafQueue' = requestAnimationFrame(rafQueue \ {h}, id)
    /\ UNCHANGED <<canvasRef, listening, mouseRef, wasmRef, initPc, trailRef,
                   orbitPathRef, orbitParamsRef, semiMajorAxisRef, inclinationDeg,
                   eccentricity, camera, cameraRef, window, now, probe>>

\* A resize listener that also resets the camera, for comparison.
handleResizeResettingCamera(win) ==
    /\ listening
    /\ win # window
    /\ window' = win
    /\ IF canvasRef # Null
       THEN /\ canvas' = CanvasFor(win)
            /\ starsRef' = NoStars
       ELSE UNCHANGED <<canvas, starsRef>>
    /\ camera' = InitCamera
    /\ cameraRef' = InitCamera
    /\ frameLog' = <<>>
    /\ UNCHANGED <<canvasRef, listening, animationRef, rafQueue, mouseRef, wasmRef,
                   initPc, satelliteRef, lastTimeRef, trailRef, orbitPathRef,
                   orbitParamsRef, semiMajorAxisRef, inclinationDeg, eccentricity,
                   now, probe>>

\* The window is resized to win and the resize listener runs.
handleResize(win) ==
    /\ listening
    /\ win # window
    /\ window' = win
    /\ IF canvasRef # Null
       THEN /\ canvas' = CanvasFor(win)
            /\ starsRef' = NoStars
       ELSE UNCHANGED <<canvas, starsRef>>
    /\ frameLog' = <<>>
    /\ UNCHANGED <<canvasRef, listening, animationRef, rafQueue, mouseRef, wasmRef,
                   initPc, satelliteRef, lastTimeRef, trailRef, orbitPathRef,
                   orbitParamsRef, semiMajorAxisRef, inclinationDeg, eccentricity,
                   camera, cameraRef, now, probe>>


(***************************************************************************)
(* initializeWasm: loadWasm(), then wasm.default(), then the satellite     *)
(***************************************************************************)
\* `await loadWasm()` resolves: wasmRef.current = wasm
LoadWasmResolves ==
    /\ initPc = "loadWasm"
    /\ wasmRef' = [module |-> "orbit_crab"]
    /\ initPc' = "wasmDefault"
    /\ frameLog' = <<>>
    /\ UNCHANGED <<canvasRef, listening, animationRef, rafQueue, mouseRef,
                   satelliteRef, lastTimeRef, starsRef, trailRef, orbitPathRef,
                   orbitParamsRef, semiMajorAxisRef, inclinationDeg, eccentricity,
                   camera, cameraRef, window, canvas, now, probe>>

\* `await loadWasm()` or `await wasm.default()` rejects: the catch logs it.
InitializeWasmFails ==
    /\ initPc \in {"loadWasm", "wasmDefault"}
    /\ initPc' = "failed"
    /\ frameLog' = <<>>
    /\ UNCHANGED <<canvasRef, listening, animationRef, rafQueue, mouseRef, wasmRef,
                   satelliteRef, lastTimeRef, starsRef, trailRef, orbitPathRef,
                   orbitParamsRef, semiMajorAxisRef, inclinationDeg, eccentricity,
                   camera, cameraRef, window, canvas, now, probe>>

\* orbitParamsRef.current = { a, e, i, raan, w } of initializeWasm: each field
\* is the satellite's getter when there is one and else the value the
\* satellite was constructed with (eccentricity and inclinationDeg are those
\* of the first render, 0.0 and 51.6); both give the constructed elements.
InitParams(semiMajorAxis) ==
    [a |-> semiMajorAxis, e |-> 0, i |-> TenthsToRad4(516), raan |-> 0, w |-> 0]

\* `await wasm.default()` resolves and initializeWasm runs to its end.
WasmDefaultResolves ==
    /\ initPc = "wasmDefault"
    /\ initPc' = "done"
    /\ semiMajorAxisRef' = EARTH_RADIUS + 4000
    /\ satelliteRef' = NewSatellite(semiMajorAxisRef', 0, 516, now)
    /\ orbitParamsRef' = InitParams(semiMajorAxisRef')
    /\ orbitPathRef' = rebuildOrbitExternal(orbitParamsRef')
    /\ frameLog' = <<>>
    /\ UNCHANGED <<canvasRef, listening, animationRef, rafQueue, mouseRef, wasmRef,
                   lastTimeRef, starsRef, trailRef, inclinationDeg, eccentricity,
                   camera, cameraRef, window, canvas, now, probe>>

(***************************************************************************)
(* The parameter effect: rebuild                                           *)
(***************************************************************************)
\* rebuild() with the slider values of the render that scheduled it.  With
\* the module loaded but not yet initialised the Satellite constructor is
\* called on an uninitialised module: it either throws (rebuild's promise
\* rejects and nothing is stored) or returns an instance.
rebuild(ecc, incl) ==
    IF wasmRef = Null
    THEN UNCHANGED <<satelliteRef, lastTimeRef, orbitParamsRef, orbitPathRef, trailRef>>
    ELSE \/ /\ satelliteRef' = RebuildSatellite(ecc, incl)
            /\ lastTimeRef' = now
            /\ orbitParamsRef' = RebuildParams(ecc, incl)
            /\ orbitPathRef' = rebuildOrbitExternal(orbitParamsRef')
            /\ trailRef' = <<>>
         \/ /\ ~WasmReady
            /\ UNCHANGED <<satelliteRef, lastTimeRef, orbitParamsRef, orbitPathRef,
                           trailRef>>

\* The inclination slider's onChange, the re-render and its effect.
setInclinationDeg(v) ==
    /\ canvasRef # Null
    /\ v # inclinationDeg
    /\ inclinationDeg' = v
    /\ rebuild(eccentricity, v)
    /\ frameLog' = <<>>
    /\ UNCHANGED <<canvasRef, listening, animationRef, rafQueue, mouseRef, wasmRef,
                   initPc, starsRef, semiMajorAxisRef, eccentricity, camera,
                   cameraRef, window, canvas, now, probe>>

\* The eccentricity slider's onChange, the re-render and its effect; the
\* slider offers the multiples of its step up to max = getSafeMaxE().
setEccentricity(v) ==
    /\ canvasRef # Null
    /\ Hundredths(v) <= getSafeMaxE
    /\ Hundredths(v) # eccentricity
    /\ eccentricity' = Hundredths(v)
    /\ rebuild(eccentricity', inclinationDeg)
    /\ frameLog' = <<>>
    /\ UNCHANGED <<canvasRef, listening, animationRef, rafQueue, mouseRef, wasmRef,
                   initPc, starsRef, semiMajorAxisRef, inclinationDeg, camera,
                   cameraRef, window, canvas, now, probe>>

(***************************************************************************)
(* Teardown and the clock                                                  *)
(***************************************************************************)
\* The component is removed: React detaches the canvas ref.
Unmount ==
    /\ canvasRef # Null
    /\ canvasRef' = Null
    /\ mouseRef' = mouseRef
    /\ frameLog' = <<>>
    /\ UNCHANGED <<listening, animationRef, rafQueue, wasmRef, initPc,
                   satelliteRef, lastTimeRef, starsRef, trailRef, orbitPathRef,
                   orbitParamsRef, semiMajorAxisRef, inclinationDeg, eccentricity,
                   camera, cameraRef, window, canvas, now, probe>>

\* A cleanup that removes the listener and cancels nothing, for comparison.
CleanupWithoutCancel ==
    /\ canvasRef = Null
    /\ listening
    /\ listening' = FALSE
    /\ frameLog' = <<>>
    /\ UNCHANGED <<canvasRef, animationRef, rafQueue, mouseRef, wasmRef, initPc,
                   satelliteRef, lastTimeRef, starsRef, trailRef, orbitPathRef,
                   orbitParamsRef, semiMajorAxisRef, inclinationDeg, eccentricity,
                   camera, cameraRef, window, canvas, now, probe>>

\* The cleanup of the mount effect.
Cleanup ==
    /\ canvasRef = Null
    /\ listening
    /\ listening' = FALSE
    /\ rafQueue' = IF animationRef # 0 THEN rafQueue \ {animationRef} ELSE rafQueue
    /\ frameLog' = <<>>
    /\ UNCHANGED <<canvasRef, animationRef, mouseRef, wasmRef, initPc, satelliteRef,
                   lastTimeRef, starsRef, trailRef, orbitPathRef, orbitParamsRef,
                   semiMajorAxisRef, inclinationDeg, eccentricity, camera, cameraRef,
                   window, canvas, now, probe>>

\* A millisecond passes.
ClockTick ==
    /\ now < MaxNow
    /\ now' = now + 1
    /\ frameLog' = <<>>
    /\ UNCHANGED <<canvasRef, listening, animationRef, rafQueue, mouseRef, wasmRef,
                   initPc, satelliteRef, lastTimeRef, starsRef, trailRef,
                   orbitPathRef, orbitParamsRef, semiMajorAxisRef, inclinationDeg,
                   eccentricity, camera, cameraRef, window, canvas, probe>>

MouseDown == \E p \in ClientPoints : handleMouseDown(p[1], p[2])
MouseMove == \E p \in ClientPoints : handleMouseMove(p[1], p[2])
Wheel == \E d \in WheelDeltas : handleWheel(d)
Frame == \E h \in Handles : animate(h)
Resize == \E win \in WindowSizes : handleResize(win)
InclinationChange == \E v \in InclinationChoices : setInclinationDeg(v)
EccentricityChange == \E v \in EccentricityChoices : setEccentricity(v)

Next ==
    \/ MouseDown
    \/ handleMouseUp
    \/ MouseMove
    \/ Wheel
    \/ Frame
    \/ Resize
    \/ LoadWasmResolves
    \/ InitializeWasmFails
    \/ WasmDefaultResolves
    \/ InclinationChange
    \/ EccentricityChange
    \/ Unmount
    \/ Cleanup
    \/ ClockTick

Spec == Init /\ [][Next]_vars

\* The browser delivers a scheduled frame callback: a callback that stays
\* queued is eventually run.
SpecLive == Spec /\ WF_vars(Frame)

(***************************************************************************)
(* The camera handlers on their own                                        *)
(***************************************************************************)
YawInRange(clientX) ==
    Abs(DragRotationY(camera.rotationY, clientX - mouseRef.lastX)) <= MaxYaw * Unit

DragDown == \E p \in DragPoints : handleMouseDown(p[1], p[2])
DragMove == \E p \in DragPoints : YawInRange(p[1]) /\ handleMouseMove(p[1], p[2])
Zoom == \E d \in ZoomDeltas : handleWheel(d)

NextCamera ==
    \/ DragDown
    \/ handleMouseUp
    \/ DragMove
    \/ Zoom

SpecCamera == Init /\ [][NextCamera]_vars

(***************************************************************************)
(* rebuildOrbitPath and drawOrbitPath on their own                         *)
(***************************************************************************)
StepChoices == (1..MaxSteps) \cup {DefaultSteps}

\* rebuildOrbitPath(params, steps)
RebuildProbe(params, steps) ==
    /\ probe = Null
    /\ probe' = [op     |-> "rebuildOrbitPath",
                 params |-> params,
                 steps  |-> steps,
                 inc    |-> DDivInt(360, steps),
                 trace  |-> rebuildOrbitTrace(params, steps)]
    /\ UNCHANGED progVars

NextPath == \E params \in KnownParams, steps \in StepChoices : RebuildProbe(params, steps)

SpecPath == Init /\ [][NextPath]_vars

\* Cameras and points drawOrbitPath is applied to: the initial camera and
\* one pitched to the limit, turned and pulled back; the points of the
\* initial orbit at 0, 90, 180 and 270 degrees.
ProbeCameras ==
    {InitCamera,
     [x |-> 0, y |-> 0, z |-> 5000, rotationX |-> -HalfPi4, rotationY |-> 5708]}

ProbePoints ==
    {[x |-> 10371, y |-> 0, z |-> 0], [x |-> 0, y |-> 6442, z |-> 8127],
     [x |-> -10371, y |-> 0, z |-> 0], [x |-> 0, y |-> -6442, z |-> -8127]}

PathsOfLength(n) == [1..n -> ProbePoints]

ProbePaths == UNION {PathsOfLength(n) : n \in 0..MaxPathLen}

\* drawOrbitPath(ctx, project3D, SCALE, path) under camera cam
DrawProbe(cam, path) ==
    /\ probe = Null
    /\ probe' = [op    |-> "drawOrbitPath",
                 cam   |-> cam,
                 path  |-> path,
                 calls |-> drawOrbitPath(cam, window, path)]
    /\ UNCHANGED progVars

NextDraw == \E cam \in ProbeCameras, path \in ProbePaths : DrawProbe(cam, path)

SpecDraw == Init /\ [][NextDraw]_vars

(***************************************************************************)
(* rotateX and rotateY on their own                                        *)
(***************************************************************************)
\* Points handed to the rotations: the axes, points of the scaled orbit and
\* of the body wireframe, and points with all three coordinates set.
RotationPoints ==
    {[x |-> 0, y |-> 0, z |-> 0], [x |-> 1037, y |-> 0, z |-> 0],
     [x |-> 0, y |-> 637, z |-> 0], [x |-> 0, y |-> 0, z |-> -637],
     [x |-> 0, y |-> 644, z |-> 813], [x |-> -1037, y |-> 0, z |-> 0],
     [x |-> 450, y |-> -450, z |-> 3], [x |-> -1, y |-> 1, z |-> 1],
     [x |-> 1425, y |-> 1425, z |-> -1425], [x |-> 300, y |-> -200, z |-> 1000]}

\* Angles in 1e-4 rad: zero, the smallest step, the camera's initial and
\* limiting pitch, negative angles, and yaws of more than a turn.
RotationAngles ==
    {0, 1, 100, 7854, 10000, HalfPi4, -HalfPi4, 23562, Pi4, -20000, 50000,
     -78540, 123456}

\* rotateX and rotateY of p by angle, back by -angle, and by 0.
RotateProbe(p, angle) ==
    /\ probe = Null
    /\ probe' = [op    |-> "rotate",
                 p     |-> p,
                 angle |-> angle,
                 rx    |-> rotateX(p, angle),
                 backX |-> rotateX(rotateX(p, angle), -angle),
                 zeroX |-> rotateX(p, 0),
                 ry    |-> rotateY(p, angle),
                 backY |-> rotateY(rotateY(p, angle), -angle),
                 zeroY |-> rotateY(p, 0)]
    /\ UNCHANGED progVars

NextRotate == \E p \in RotationPoints, angle \in RotationAngles : RotateProbe(p, angle)

SpecRotate == Init /\ [][NextRotate]_vars

(***************************************************************************)
(* The points a tick projects: path points, wireframe points, the          *)
(* satellite position                                                      *)
(***************************************************************************)
\* Camera states within the ranges the handlers keep: pitch at the limits
\* and between, yaw around the turn, distance at both limits.
ProjectionCameras ==
    [x : {0}, y : {0}, z : {2000, 5000},
     rotationX : {-HalfPi4, -7854, 0, 7854, HalfPi4},
     rotationY : {-HalfPi4, 0, 7854, HalfPi4, 23562, Pi4}]

\* Slider positions: eccentricity 0, the largest offered, and one beyond the
\* maximum (which rebuild clamps); inclinations 0, 51.6, 90 and 180 degrees.
ProjectionEccentricities == {0, Hundredths(37), Hundredths(95)}
ProjectionInclinations == {0, 516, 900, 1800}

\* True anomalies and wireframe angles, in degrees.
ProjectionAnomalies == {15 * k : k \in 0..23}
WireLatitudes == {30 * k : k \in (-3)..3}
WireLongitudes == {45 * k : k \in 0..8}

\* The elements of a propagator instance as rebuildOrbitPath takes them.
SatParams(sat) ==
    [a |-> sat.semiMajorAxis, e |-> sat.eccentricity,
     i |-> TenthsToRad4(sat.inclination), raan |-> 0, w |-> 0]

\* The position of a propagator at true anomaly deg: the point of its orbit.
SatWorldPosition(sat, deg) == OrbitPoint(SatParams(sat), <<deg, 0, 0>>)

\* drawWireframeEarth: [radius cos(lat) cos(lon), radius sin(lat),
\* radius cos(lat) sin(lon)]
WirePoint(radius, latRad, lonRad) ==
    [x |-> Mul4(Mul4(radius, Cos4(latRad)), Cos4(lonRad)),
     y |-> Mul4(radius, Sin4(latRad)),
     z |-> Mul4(Mul4(radius, Cos4(latRad)), Sin4(lonRad))]

\* The argument of project3D for a point of the stored path, of the
\* wireframe of radius EARTH_RADIUS * SCALE, and for the satellite.
PathPointsToProject ==
    {Scaled(OrbitPoint(RebuildParams(ecc, incl), <<deg, 0, 0>>), SCALE) :
        ecc \in ProjectionEccentricities, incl \in ProjectionInclinations,
        deg \in ProjectionAnomalies}

WirePointsToProject ==
    {WirePoint(Times(EARTH_RADIUS, SCALE), TenthsToRad4(10 * lat),
               TenthsToRad4(10 * lon)) :
        lat \in WireLatitudes, lon \in WireLongitudes}

SatPointsToProject ==
    {Scaled(SatWorldPosition(RebuildSatellite(ecc, incl), deg), SCALE) :
        ecc \in ProjectionEccentricities, incl \in ProjectionInclinations,
        deg \in ProjectionAnomalies}

\* project3D([x, y, z]) under camera cam
ProjectProbe(kind, cam, point) ==
    /\ probe' = [op     |-> "project",
                 kind   |-> kind,
                 cam    |-> cam,
                 point  |-> point,
                 den    |-> project3D(cam, window, point).den,
                 screen |-> Rounded(project3D(cam, window, point))]
    /\ UNCHANGED progVars

NextProject ==
    /\ probe = Null
    /\ \E cam \in ProjectionCameras :
         \/ \E point \in PathPointsToProject : ProjectProbe("path", cam, point)
         \/ \E point \in WirePointsToProject : ProjectProbe("body", cam, point)
         \/ \E point \in SatPointsToProject : ProjectProbe("satellite", cam, point)

SpecProject == Init /\ [][NextProject]_vars

(***************************************************************************)
(* The loop of rebuildOrbitPath, one iteration at a time, for every        *)
(* integer sample count                                                    *)
(***************************************************************************)
\* Values of deg and of 360 / steps: a finite double with its sign, +Infinity
\* (360 / 0), or a finite value below -360 whose digits are not kept.
Infinity == [kind |-> "Infinity"]
Below == [kind |-> "below -360"]
Finite(neg, mag) == [kind |-> "finite", neg |-> neg, mag |-> mag]

\* 360 / steps
LoopIncrement(steps) ==
    IF steps = 0 THEN Infinity
    ELSE Finite(steps < 0, DDivInt(360, Abs(steps)))

\* deg < 360
LoopTest(deg) ==
    \/ deg = Below
    \/ deg.kind = "finite" /\ (deg.neg \/ DLessInt(deg.mag, 360))

\* deg += 360 / steps; deg and the increment have the same sign, deg
\* starting at 0.
Accumulated(neg, mag) ==
    IF neg /\ ~DLessInt(mag, 360) THEN Below ELSE Finite(neg, mag)

LoopAdd(deg, inc) ==
    IF inc = Infinity THEN Infinity
    ELSE IF deg = Below THEN Below
    ELSE Accumulated(inc.neg, DAdd(deg.mag, inc.mag))

StepRange == (-MaxSteps)..MaxSteps

\* rebuildOrbitPath(params, steps) is called: const points = [], let deg = 0.
LoopStart(steps) ==
    /\ probe = Null
    /\ probe' = [op    |-> "loop",
                 steps |-> steps,
                 inc   |-> LoopIncrement(steps),
                 deg   |-> Finite(FALSE, DZero),
                 count |-> 0,
                 odd   |-> FALSE,
                 pc    |-> "test"]
    /\ UNCHANGED progVars

\* One evaluation of the loop test, followed by one run of the body and the
\* increment, or by `return points`.
LoopIterate ==
    /\ probe # Null /\ probe.op = "loop" /\ probe.pc = "test"
    /\ probe' = IF LoopTest(probe.deg)
                THEN [probe EXCEPT !.deg = LoopAdd(@, probe.inc),
                                   !.count = Min(@ + 1, MaxCount),
                                   !.odd = ~@]
                ELSE [probe EXCEPT !.pc = "done"]
    /\ UNCHANGED progVars

NextLoop ==
    \/ \E steps \in StepRange : LoopStart(steps)
    \/ LoopIterate

\* A call that has started keeps executing.
SpecLoop == Init /\ [][NextLoop]_vars /\ WF_vars(LoopIterate)


(***************************************************************************)
(* Properties                                                              *)
(***************************************************************************)
\* C1: in every reachable state the camera's rotationX lies in
\* [-pi/2, pi/2] and its z in [2000, 5000], whatever drags and wheel events
\* have been applied; the copy the draw helpers read is the same camera.
C1_CameraInvariant ==
    /\ -HalfPi4 <= camera.rotationX /\ camera.rotationX <= HalfPi4
    /\ 2000 <= camera.z /\ camera.z <= 5000
    /\ cameraRef = camera

\* A drag has run into the upper pitch limit and the wheel into the near limit.
C1_Witness ==
    /\ camera.rotationX = HalfPi4
    /\ camera.z = 2000
    /\ mouseRef.isDown

\* 100 * a * (1 - e): the periapsis radius in hundredths of a kilometre, for
\* an eccentricity e in 1/EDen.
Periapsis100(a, e) == MulDiv(EDen - e, a, InitSemiMajorAxis)

\* a(1 - e) >= bodyRadius + 0.01 a, both sides in hundredths of a kilometre.
ClearsBody(a, e) == Periapsis100(a, e) >= 100 * EARTH_RADIUS + a

\* C2: the eccentricity stored in the orbital elements and the one the
\* propagator was constructed with keep the periapsis a(1 - e) at or above
\* the body radius 6371 plus the margin 0.01 a, after initialisation and
\* after every slider change.
C2_PeriapsisClearsBody ==
    /\ orbitParamsRef # Null =>
           /\ orbitParamsRef.e >= 0
           /\ ClearsBody(orbitParamsRef.a, orbitParamsRef.e)
    /\ satelliteRef # Null =>
           /\ satelliteRef.eccentricity >= 0
           /\ ClearsBody(satelliteRef.semiMajorAxis, satelliteRef.eccentricity)

\* The largest eccentricity the slider offers has been stored and handed to
\* the propagator.
C2_Witness ==
    /\ WasmReady
    /\ eccentricity = Hundredths(37)
    /\ orbitParamsRef # Null /\ orbitParamsRef.e = Hundredths(37)
    /\ satelliteRef # Null /\ satelliteRef.eccentricity = Hundredths(37)

\* C3: in every state where the module load and initialisation are over and
\* no handler is running, the stored elements are { a, clamped slider
\* eccentricity, slider inclination in radians, 0, 0 } for the current slider
\* values and the stored path is the path built from those elements, also
\* when a slider moved while the module was loading or initialising.
C3_SlidersTakeEffect ==
    initPc = "done" =>
        /\ orbitParamsRef = RebuildParams(eccentricity, inclinationDeg)
        /\ orbitPathRef = rebuildOrbitExternal(orbitParamsRef)

\* The names of the calls of a tick, in order.
CallNames(log) == [k \in 1..Len(log) |-> log[k][1]]

DrawNames == {"drawStars", "drawOrbitPath", "drawWireframeEarth", "drawSatellite",
              "marker"}

IsDraw(name) == name \in DrawNames

IsDrawOrRead(name) == name \in DrawNames \cup {"fillRect", "getWorldPosition"}

\* C4: within every tick the propagator advance, when there is a propagator,
\* comes before every draw call; the draws come in the order star field,
\* orbital path, body wireframe, satellite marker; and the position the
\* marker is drawn from is read after the advance of that tick.
C4_TickOrder ==
    frameLog # <<>> =>
        LET names == CallNames(frameLog)
            draws == SelectSeq(names, IsDraw)
        IN  /\ \A j, k \in 1..Len(names) :
                   names[j] = "update" /\ IsDrawOrRead(names[k]) => j < k
            /\ \/ draws = <<"drawStars", "drawOrbitPath", "drawWireframeEarth",
                            "drawSatellite">>
               \/ draws = <<"drawStars", "drawOrbitPath", "drawWireframeEarth",
                            "drawSatellite", "marker">>
            /\ \A k \in 1..Len(names) :
                   names[k] = "getWorldPosition" /\ satelliteRef # Null =>
                       /\ frameLog[k][2] = satelliteRef.t
                       /\ names[1] = "update"

\* A tick has advanced the propagator by a non-zero time and drawn the marker.
C4_Witness ==
    /\ Len(frameLog) = 8
    /\ frameLog[1] = <<"update", 50>>
    /\ frameLog[8] = <<"marker">>

C6_TeardownStopsLoop ==
    ~listening => rafQueue = {} /\ ~ENABLED Frame

\* The cleanup has run after ticks and with the module load still under way.
C6_Witness ==
    /\ ~listening
    /\ animationRef # 1
    /\ initPc = "wasmDefault"
    /\ rafQueue = {}

DLess(x, y) ==
    \/ x[1] < y[1]
    \/ x[1] = y[1] /\ x[2] < y[2]
    \/ x[1] = y[1] /\ x[2] = y[2] /\ x[3] < y[3]

\* C8: for every positive sample count steps, rebuildOrbitPath returns
\* exactly steps points, sampled at true anomalies that start at 0 degrees and
\* grow by the uniform increment 360 / steps.
C8_ExactlyStepsPoints ==
    probe # Null /\ probe.op = "rebuildOrbitPath" =>
        LET degs == probe.trace.degs
        IN  /\ Len(probe.trace.points) = probe.steps
            /\ degs[1] = DZero
            /\ \A k \in 1..(Len(degs) - 1) :
                   /\ DLess(degs[k], degs[k + 1])
                   /\ degs[k + 1] = DAdd(degs[k], probe.inc)

\* Math.round of the screen position of path point p under camera cam.
ScreenPoint(cam, p) == Rounded(project3D(cam, window, Scaled(p, SCALE)))

IsPathCall(call) == call[1] \in {"moveTo", "lineTo", "stroke"}

\* C9: for a non-empty path drawOrbitPath issues one moveTo at the rounded
\* projection of point 0, a lineTo at the rounded projection of each
\* following point in index order, a final lineTo back to the rounded
\* projection of point 0, and then the stroke; for an empty path it makes no
\* call at all.
C9_ClosedLoop ==
    probe # Null /\ probe.op = "drawOrbitPath" =>
        LET path  == probe.path
            drawn == SelectSeq(probe.calls, IsPathCall)
            at(k) == ScreenPoint(probe.cam, path[k])
        IN  IF path = <<>>
            THEN probe.calls = <<>>
            ELSE /\ Len(drawn) = Len(path) + 2
                 /\ drawn[1] = <<"moveTo", at(1)[1], at(1)[2]>>
                 /\ \A k \in 2..Len(path) : drawn[k] = <<"lineTo", at(k)[1], at(k)[2]>>
                 /\ drawn[Len(path) + 1] = <<"lineTo", at(1)[1], at(1)[2]>>
                 /\ drawn[Len(path) + 2] = <<"stroke">>

\* A path of three different points has been drawn from the pitched camera.
C9_Witness ==
    /\ probe # Null /\ probe.op = "drawOrbitPath"
    /\ Len(probe.path) = 3
    /\ probe.path[1] # probe.path[2] /\ probe.path[2] # probe.path[3]
    /\ probe.path[3] # probe.path[1]
    /\ probe.cam # InitCamera
    /\ probe.calls[7][1] = "lineTo"
    /\ <<probe.calls[6][2], probe.calls[6][3]>> # <<probe.calls[7][2], probe.calls[7][3]>>

\* The step replaces the elements, the path or the propagator instance.
OrbitChanges ==
    \/ orbitParamsRef' # orbitParamsRef
    \/ orbitPathRef' # orbitPathRef
    \/ SatElements(satelliteRef') # SatElements(satelliteRef)

\* The step changes the camera state or the copy the draw helpers read.
CameraChanges == camera' # camera \/ cameraRef' # cameraRef

\* C10: the orbital elements, the orbital path and the propagator instance
\* change only in the last step of the initialisation and in a slider
\* change, never in a drag, a wheel event, a resize or a tick; the camera
\* changes only in a drag or a wheel event, never in a tick, a resize or a
\* slider change.
C10_FrameConditions ==
    [][/\ OrbitChanges =>
            WasmDefaultResolves \/ InclinationChange \/ EccentricityChange
       /\ CameraChanges => MouseMove \/ Wheel
       /\ Frame \/ Resize \/ MouseDown \/ handleMouseUp \/ MouseMove \/ Wheel =>
            ~OrbitChanges
       /\ Frame \/ Resize \/ InclinationChange \/ EccentricityChange =>
            ~CameraChanges]_vars

\* The window has been resized and a tick has advanced the propagator with
\* the camera zoomed in and the sliders moved.
C10_Witness ==
    /\ window # InitWindow
    /\ camera.z = 2000
    /\ inclinationDeg = 900
    /\ orbitParamsRef # Null /\ orbitParamsRef.i = TenthsToRad4(900)
    /\ Len(frameLog) = 8
    /\ satelliteRef.t > 0

\* The largest coordinate difference of two points.
Distance(p, q) == Max(Abs(p.x - q.x), Max(Abs(p.y - q.y), Abs(p.z - q.z)))

\* The tolerance of a round trip in this arithmetic: one unit for the two
\* roundings of a coordinate plus 1e-3 of the point's size for the 1e-4
\* resolution of the sine and the cosine.
RoundTripTolerance(p) == 1 + (Abs(p.x) + Abs(p.y) + Abs(p.z)) \div 1000

\* C11: rotating a point about X by an angle and then by the opposite angle
\* gives the point back within tolerance, likewise about Y, and rotating by
\* the angle 0 gives the point itself.
C11_RotationRoundTrip ==
    probe # Null /\ probe.op = "rotate" =>
        /\ Distance(probe.backX, probe.p) <= RoundTripTolerance(probe.p)
        /\ Distance(probe.backY, probe.p) <= RoundTripTolerance(probe.p)
        /\ probe.zeroX = probe.p
        /\ probe.zeroY = probe.p

\* A point with three non-zero coordinates has been turned by more than a
\* turn, which moved it about both axes, and back.
C11_Witness ==
    /\ probe # Null /\ probe.op = "rotate"
    /\ probe.angle = 123456
    /\ probe.p = [x |-> 300, y |-> -200, z |-> 1000]
    /\ Distance(probe.rx, probe.p) > 100
    /\ Distance(probe.ry, probe.p) > 100

\* C12: rebuildOrbitPath terminates, returning a finite sequence, for every
\* integer sample count it is called with, zero and negative counts
\* included.
C12_RebuildTerminates ==
    (probe # Null /\ probe.op = "loop") ~> (probe # Null /\ probe.pc = "done")

\* C13: for every point a tick projects (path points, points of the body
\* wireframe, the satellite position), under every camera within the
\* handlers' ranges, the denominator fov + z of the projection is positive.
C13_DenominatorPositive ==
    probe # Null /\ probe.op = "project" =>
        probe.den > 0

\* The apoapsis of the most eccentric orbit has been projected from the
\* nearest camera distance with the camera looking along it.
C13_Witness ==
    /\ probe # Null /\ probe.op = "project"
    /\ probe.kind = "path"
    /\ probe.cam.z = 2000
    /\ probe.den < 2 * (fov + 2000 - 1400)

\* Every position of the eccentricity slider and beyond, in hundredths.
SliderHundredths == 0..100

\* C14: the semi-major axis, eccentricity and inclination of the propagator
\* in use equal the elements stored for the path, in particular after every
\* rebuild on a parameter change; and for every slider value the clamp of
\* the propagator's eccentricity and the clamp of the stored eccentricity
\* give the same value for the active semi-major axis.
C14_NoDrift ==
    /\ satelliteRef # Null /\ orbitParamsRef # Null =>
           SatParams(satelliteRef) = orbitParamsRef
    /\ \A v \in SliderHundredths :
           RebuildSatellite(Hundredths(v), inclinationDeg).eccentricity
               = RebuildParams(Hundredths(v), inclinationDeg).e

\* Rebuilds have run for the largest eccentricity the slider offers and for
\* a changed inclination, and the propagator and the stored elements hold
\* these values.
C14_Witness ==
    /\ satelliteRef # Null /\ orbitParamsRef # Null
    /\ eccentricity = Hundredths(37) /\ inclinationDeg = 900
    /\ satelliteRef.eccentricity = Hundredths(37)
    /\ orbitParamsRef.e = Hundredths(37)
    /\ orbitParamsRef.i = TenthsToRad4(900)
    /\ satelliteRef.inclination = 900

\* The tick that has just run advanced the propagator.
TickAdvanced == frameLog # <<>> /\ frameLog[1][1] = "update"

\* C15: the simulated time a propagator has been advanced by never exceeds
\* 50 times the wall-clock time elapsed since its construction, and right
\* after a tick that advanced it, it equals 50 times that time: every tick
\* passes 50 times the time since the later of the previous advancing tick
\* and the construction of the current instance.
C15_NoTimeJump ==
    satelliteRef # Null =>
        /\ satelliteRef.t <= 50 * (now - satelliteRef.born)
        /\ TickAdvanced => satelliteRef.t = 50 * (now - satelliteRef.born)

=============================================================================
